---- MODULE Spec2Model ----
(***************************************************************************)
(* note-be: the HTTP handlers of the note service (notes and their file    *)
(* attachments), the PostgreSQL tables notes / note_files they read and    *)
(* write, and the MinIO bucket that holds the attachments' objects.        *)
(*                                                                         *)
(* net/http serves every request on a goroutine of its own: a request is   *)
(* one process here.  Its handler is cut into one atomic step per call to  *)
(* the database or to the object store; the                                *)
(* statements of the deleteNote transaction take their row locks and       *)
(* become visible at commit (READ COMMITTED).  Every call to the database  *)
(* or to the object store may fail (err != nil).                           *)
(***************************************************************************)
EXTENDS Integers, Sequences, FiniteSets, TLC

\* ------------------------------------------------------------- bounds
\* ids the notes sequence may hand out, and the ids a request may name
MaxNotes == 2
\* byte length of an uploaded file
MaxData == 2

\* ------------------------------------------------------------- inputs
\* the inbound requests, each served by its own goroutine
Workers == {"r1", "r2"}

\* the ids the notes_id_seq sequence hands out (INSERT ... RETURNING id)
NoteIds == 1..MaxNotes


\* time.Now() when the clock last read t: the same instant or a later one
Times(t) == {t, t + 1}

\* header.Filename of an upload: report.pdf-like, and a name without a dot
FileNames == {<<"a", ".", "b">>, <<"a">>}

\* the bytes of an upload (a file of every length up to MaxData)
FileDatas == {[i \in 1..n |-> "x"] : n \in 0..MaxData}

\* request bodies of createNote / updateNote
Payloads ==
    { [userId |-> 7, title |-> "t1", content |-> "c1", isPinned |-> FALSE],
      [userId |-> 7, title |-> "t2", content |-> "c2", isPinned |-> TRUE] }

\* ------------------------------------------------------------- strings
Digit(d) == <<"0", "1", "2", "3", "4", "5", "6", "7", "8", "9">>[d + 1]

RECURSIVE Itoa(_)
Itoa(n) == IF n < 10 THEN <<Digit(n)>> ELSE Itoa(n \div 10) \o <<Digit(n % 10)>>

\* the value of a decimal digit
DigitValue(c) == CHOOSE d \in 0..9 : Digit(d) = c

\* the integer that strconv.Atoi, and PostgreSQL's integer input, read from
\* a string of digits
RECURSIVE Atoi(_)
Atoi(s) ==
    IF Len(s) = 0 THEN 0
    ELSE 10 * Atoi(SubSeq(s, 1, Len(s) - 1)) + DigitValue(s[Len(s)])

\* mux.Vars(r)["id"]: the path segment as the client spelled it, an id in
\* its canonical spelling or, for note 1, with a leading zero
PathIds == {Itoa(n) : n \in NoteIds} \cup {<<"0">> \o Itoa(1)}

IsPathSeparator(c) == c = "/"

RECURSIVE ExtFrom(_, _)
ExtFrom(path, i) ==
    IF i < 1 THEN <<>>
    ELSE IF IsPathSeparator(path[i]) THEN <<>>
    ELSE IF path[i] = "." THEN SubSeq(path, i, Len(path))
    ELSE ExtFrom(path, i - 1)

\* filepath.Ext
Ext(path) == ExtFrom(path, Len(path))

HasSuffix(s, suffix) ==
    /\ Len(s) >= Len(suffix)
    /\ SubSeq(s, Len(s) - Len(suffix) + 1, Len(s)) = suffix

TrimSuffix(s, suffix) ==
    IF HasSuffix(s, suffix) THEN SubSeq(s, 1, Len(s) - Len(suffix)) ELSE s

HasPrefix(s, prefix) ==
    /\ Len(s) >= Len(prefix)
    /\ SubSeq(s, 1, Len(prefix)) = prefix

TrimPrefix(s, prefix) ==
    IF HasPrefix(s, prefix) THEN SubSeq(s, Len(prefix) + 1, Len(s)) ELSE s

getFileInfo(filename) ==
    [ name |-> TrimSuffix(filename, Ext(filename)),
      ext  |-> TrimPrefix(Ext(filename), <<".">>) ]

\* fmt.Sprintf("%s-%s", noteID, header.Filename)
UploadObjectName(noteID, filename) == noteID \o <<"-">> \o filename

\* fmt.Sprintf("%s-%s.%s", id, fileName, ext)
DeleteObjectName(noteID, fileName, ext) ==
    noteID \o <<"-">> \o fileName \o <<".">> \o ext

\* presignedURL.String(): the endpoint, the bucket, the object and the signature
PresignedURL(bucketName, objectName) ==
    <<"h", "/">> \o bucketName \o <<"/">> \o objectName \o <<"?", "X">>

noteFilesBucket == <<"n", "f">>

\* ------------------------------------------------------------- state
VARIABLES
    notes,        \* table notes: id -> row
    note_files,   \* table note_files: id -> row
    noteSeq,      \* next value of notes.id (SERIAL)
    fileSeq,      \* next value of note_files.id (SERIAL)
    bucketExists, \* the bucket notes-files exists
    objects,      \* the bucket: object name -> bytes
    now,          \* the latest reading of time.Now()
    pc,           \* per request: where its handler stands
    req,          \* per request: the path and the body, once it has arrived
    loc,          \* per request: the handler's local variables
    resp          \* per request: the response, once the handler has returned

vars == <<notes, note_files, noteSeq, fileSeq, bucketExists, objects, now,
          pc, req, loc, resp>>

db == <<notes, note_files, noteSeq, fileSeq>>

store == <<bucketExists, objects>>

NoReq ==
    [ op |-> "none", path |-> <<>>, id |-> 0, userId |-> 0, title |-> "", content |-> "",
      isPinned |-> FALSE, filename |-> <<>>, data |-> <<>>, fileID |-> 0 ]

NoBody == [kind |-> "none"]

NoResp == [status |-> 0, body |-> NoBody]

\* http.Error(w, err.Error(), status): the body is the failed call's message
Error(msg) == [kind |-> "error", msg |-> msg]

\* a nil error
Nil == ""

\* logged: deleteNote has written "Error deleting file from MinIO" to the log;
\* t: the time.Now() the handler has read; err: the error it is about to answer
NoLoc ==
    [ rows |-> {}, objectName |-> <<>>, inTx |-> FALSE,
      txFiles |-> {}, txNote |-> FALSE, downloadURL |-> <<>>, note |-> NoBody,
      logged |-> FALSE, t |-> 0, err |-> "" ]

\* rows of note_files WHERE note_id = n
FilesOf(tbl, n) == {f \in DOMAIN tbl : tbl[f].note_id = n}

Without(tbl, ids) == [x \in DOMAIN tbl \ ids |-> tbl[x]]

\* ------------------------------------------------------------- Init
\* The database and the bucket outlive the process: the service starts on
\* what earlier createNote and uploadFile requests left: no note, or note 1
\* (k = 1) with each distinct file name in ups[1] uploaded to it through its
\* canonical path.
SeedPayload == [userId |-> 7, title |-> "t0", content |-> "c0", isPinned |-> FALSE]

SeedData == <<"x">>

FileNameSeq == CHOOSE s \in [1..Cardinality(FileNames) -> FileNames] :
                 \A i, j \in DOMAIN s : i # j => s[i] # s[j]

SeedPairs(k, ups) == {<<n, i>> \in (1..k) \X DOMAIN FileNameSeq : FileNameSeq[i] \in ups[n]}

SeedRank(p) == (p[1] - 1) * Cardinality(FileNames) + p[2]

SeedId(pairs, p) == Cardinality({q \in pairs : SeedRank(q) <= SeedRank(p)})

FileRow(noteID, filename, size, url) ==
    [ note_id |-> noteID, file_name |-> getFileInfo(filename).name, size |-> size,
      ext |-> getFileInfo(filename).ext, file_url |-> url ]

NoteRow(userId, title, content, t, isPinned) ==
    [ user_id |-> userId, title |-> title, content |-> content,
      last_modified |-> t, is_pin |-> isPinned ]

Init ==
    \E k \in 0..1 :
    \E ups \in [1..k -> SUBSET FileNames] :
      LET pairs == SeedPairs(k, ups) IN
      /\ notes = [n \in 1..k |->
                    NoteRow(SeedPayload.userId, SeedPayload.title, SeedPayload.content,
                            1, SeedPayload.isPinned)]
      /\ noteSeq = k + 1
      /\ note_files =
           [f \in 1..Cardinality(pairs) |->
              LET p == CHOOSE q \in pairs : SeedId(pairs, q) = f IN
              FileRow(p[1], FileNameSeq[p[2]], Len(SeedData),
                      PresignedURL(noteFilesBucket, UploadObjectName(Itoa(p[1]), FileNameSeq[p[2]])))]
      /\ fileSeq = Cardinality(pairs) + 1
      /\ objects =
           [o \in {UploadObjectName(Itoa(p[1]), FileNameSeq[p[2]]) : p \in pairs} |-> SeedData]
      /\ bucketExists \in (IF pairs = {} THEN BOOLEAN ELSE {TRUE})
      /\ now = 1
      /\ pc = [w \in Workers |-> "idle"]
      /\ req = [w \in Workers |-> NoReq]
      /\ loc = [w \in Workers |-> NoLoc]
      /\ resp = [w \in Workers |-> NoResp]

\* ------------------------------------------------------------- helpers
\* the handler of worker w returns: status and body are written
Finish(w, status, body) ==
    /\ pc' = [pc EXCEPT ![w] = "done"]
    /\ resp' = [resp EXCEPT ![w] = [status |-> status, body |-> body]]
    /\ loc' = [loc EXCEPT ![w] = NoLoc]

\* request w arrives as r and the router calls its handler
Accept(w, r) ==
    /\ pc[w] = "idle"
    /\ req' = [req EXCEPT ![w] = r]

\* worker w goes on to step p of the handler it runs
Goto(w, p, l) ==
    /\ pc' = [pc EXCEPT ![w] = p]
    /\ loc' = [loc EXCEPT ![w] = l]
    /\ UNCHANGED resp

Running(w) == UNCHANGED req

\* rows another worker's open transaction has deleted and still locks
LockedFiles(w) == UNION {loc[v].txFiles : v \in Workers \ {w}}

NoteLocked(w, n) == \E v \in Workers \ {w} : loc[v].txNote /\ req[v].id = n

\* ------------------------------------------------------------- SQL
\* (mutant) the INSERT leaves is_pin to its column default
InsertNoteUnpinned(tbl, id, p, t) ==
    tbl @@ (id :> NoteRow(p.userId, p.title, p.content, t, FALSE))

\* INSERT INTO notes (...) VALUES (...) RETURNING id
InsertNote(tbl, id, p, t) ==
    tbl @@ (id :> NoteRow(p.userId, p.title, p.content, t, p.isPinned))

\* (mutant) the UPDATE writes the title and the flag, and a second statement
\* that is never reached would write the content
UpdateNoteRowKeepContent(row, p, t) ==
    [row EXCEPT !.title = p.title, !.last_modified = t, !.is_pin = p.isPinned]

\* UPDATE notes SET title=$1, content=$2, last_modified=$3, is_pin=$4 WHERE id=$5
UpdateNoteRow(row, p, t) ==
    [row EXCEPT !.title = p.title, !.content = p.content,
                !.last_modified = t, !.is_pin = p.isPinned]

\* (mutant) INSERT ... ON CONFLICT (id) DO UPDATE: a missing id gets a row
UpsertNotes(tbl, id, p, t) ==
    [n \in DOMAIN tbl \cup {id} |->
       IF n # id THEN tbl[n]
       ELSE IF n \in DOMAIN tbl THEN UpdateNoteRow(tbl[n], p, t)
       ELSE NoteRow(p.userId, p.title, p.content, t, p.isPinned)]

UpdateNotes(tbl, id, p, t) ==
    [n \in DOMAIN tbl |-> IF n = id THEN UpdateNoteRow(tbl[n], p, t) ELSE tbl[n]]

\* (mutant) the flag is flipped instead of set
FlipPinRow(row, v, t) == [row EXCEPT !.is_pin = ~row.is_pin]

\* UPDATE notes SET is_pin = $1 WHERE id = $2
SetPinRow(row, v, t) == [row EXCEPT !.is_pin = v]

SetPin(tbl, id, v, t) ==
    [n \in DOMAIN tbl |-> IF n = id THEN SetPinRow(tbl[n], v, t) ELSE tbl[n]]

\* SELECT id, note_id, file_name, size, ext, file_url FROM note_files WHERE note_id = $1
SelectFiles(tbl, n) ==
    { [ ID |-> f, NoteID |-> tbl[f].note_id, FileName |-> tbl[f].file_name,
        Size |-> tbl[f].size, Extension |-> tbl[f].ext, URL |-> tbl[f].file_url ]
      : f \in FilesOf(tbl, n) }

\* SELECT id, user_id, title, content, last_modified, is_pin FROM notes WHERE id = $1
SelectNote(tbl, n) ==
    [ kind |-> "note", ID |-> n, UserID |-> tbl[n].user_id, Title |-> tbl[n].title,
      Content |-> tbl[n].content, LastModified |-> tbl[n].last_modified,
      IsPinned |-> tbl[n].is_pin, Files |-> {} ]

\* ------------------------------------------------------------- createNote
createNote(w) ==
    \E p \in Payloads, ok \in {"ok", "badjson"} :
      /\ Accept(w, [NoReq EXCEPT !.op = "createNote", !.userId = p.userId,
                      !.title = p.title, !.content = p.content, !.isPinned = p.isPinned])
      /\ noteSeq <= MaxNotes
      /\ UNCHANGED <<db, store>>
      /\ CASE ok = "badjson" -> Finish(w, 400, Error("decode")) /\ UNCHANGED now
           [] OTHER ->
                \* the arguments of db.QueryRow are evaluated: time.Now()
                \E t \in Times(now) :
                  /\ now' = t
                  /\ Goto(w, "cn_insert", [NoLoc EXCEPT !.t = t])

\* the INSERT INTO notes, and the response
createNoteInsert(w) ==
    /\ pc[w] = "cn_insert"
    /\ Running(w)
    /\ UNCHANGED <<note_files, fileSeq, store, now>>
    /\ \/ /\ Finish(w, 500, Error("insert notes"))
          /\ UNCHANGED <<notes, noteSeq>>
       \/ /\ noteSeq <= MaxNotes
          /\ notes' = InsertNote(notes, noteSeq, req[w], loc[w].t)
          /\ noteSeq' = noteSeq + 1
          /\ Finish(w, 200, [kind |-> "id", id |-> noteSeq])

\* ------------------------------------------------------------- getNoteByID
getNoteByID(w) ==
    \E id \in PathIds, ok \in {"ok", "dberr"} :
      LET n == Atoi(id) IN
      /\ Accept(w, [NoReq EXCEPT !.op = "getNoteByID", !.path = id, !.id = n])
      /\ UNCHANGED <<db, store, now>>
      /\ CASE ok = "dberr" -> Finish(w, 500, Error("select notes"))
           [] n \notin DOMAIN notes -> Finish(w, 404, Error("Note not found"))
           [] OTHER -> Goto(w, "gn_files", [NoLoc EXCEPT !.note = SelectNote(notes, n)])

getNoteFiles(w) ==
    /\ pc[w] = "gn_files"
    /\ Running(w)
    /\ UNCHANGED <<db, store, now>>
    /\ \/ Finish(w, 500, Error("select note_files"))
       \/ Finish(w, 200, [loc[w].note EXCEPT !.Files = SelectFiles(note_files, req[w].id)])

\* ------------------------------------------------------------- updateNote
updateNote(w) ==
    \E id \in PathIds, p \in Payloads, ok \in {"ok", "badjson"} :
      /\ Accept(w, [NoReq EXCEPT !.op = "updateNote", !.path = id, !.id = Atoi(id),
                      !.title = p.title, !.content = p.content, !.isPinned = p.isPinned])
      /\ UNCHANGED <<db, store>>
      /\ CASE ok = "badjson" -> Finish(w, 400, Error("decode")) /\ UNCHANGED now
           [] OTHER ->
                \* the arguments of db.Exec are evaluated: time.Now()
                \E t \in Times(now) :
                  /\ now' = t
                  /\ Goto(w, "un_update", [NoLoc EXCEPT !.t = t])

\* the UPDATE notes, and the response
updateNoteExec(w) ==
    /\ pc[w] = "un_update"
    /\ Running(w)
    /\ UNCHANGED <<note_files, noteSeq, fileSeq, store, now>>
    /\ \/ /\ Finish(w, 500, Error("update notes"))
          /\ UNCHANGED notes
       \/ /\ ~NoteLocked(w, req[w].id)
          /\ notes' = UpdateNotes(notes, req[w].id, req[w], loc[w].t)
          /\ Finish(w, 200, NoBody)

\* ------------------------------------------------------------- togglePinNote
togglePinNote(w) ==
    \E id \in PathIds, v \in BOOLEAN, ok \in {"ok", "badjson", "dberr"} :
      LET n == Atoi(id) IN
      /\ Accept(w, [NoReq EXCEPT !.op = "togglePinNote", !.path = id, !.id = n,
                      !.isPinned = v])
      /\ UNCHANGED <<note_files, noteSeq, fileSeq, store, now>>
      /\ CASE ok = "badjson" -> Finish(w, 400, Error("decode")) /\ UNCHANGED notes
           [] ok = "dberr" -> Finish(w, 500, Error("update notes")) /\ UNCHANGED notes
           [] OTHER ->
                /\ ~NoteLocked(w, n)
                /\ notes' = SetPin(notes, n, v, now)
                /\ Finish(w, 200, NoBody)

\* ------------------------------------------------------------- deleteFileFromMinio
\* (mutant) deleteNote too gives up on an error of deleteFileFromMinio
AbortOnMinioError(op, err) ==
    IF err # Nil THEN "fail" ELSE IF op = "deleteFile" THEN "df_delete" ELSE "next_row"

\* (mutant) deleteFile goes on to the DELETE whatever deleteFileFromMinio returned
IgnoreMinioError(op, err) == IF op = "deleteFile" THEN "df_delete" ELSE "next_row"

\* what the caller does with deleteFileFromMinio's result: deleteFile answers
\* 500 on an error, deleteNote logs it and goes on with the next row
AfterMinioDelete(op, err) ==
    IF op = "deleteFile" THEN (IF err # Nil THEN "fail" ELSE "df_delete") ELSE "next_row"

\* deleteNote's loop over the rows it read: the next row's object, or the transaction
NextRow(w, n, l) ==
    IF l.rows = {}
    THEN Goto(w, "dn_begin", [l EXCEPT !.objectName = <<>>])
    ELSE \E r \in l.rows :
           Goto(w, "dm_stat", [l EXCEPT !.rows = @ \ {r},
                                        !.objectName = DeleteObjectName(n, r.file_name, r.ext)])

\* deleteFileFromMinio returns err to its caller
MinioReturn(w, err) ==
    LET next == AfterMinioDelete(req[w].op, err) IN
    CASE next = "fail" -> Finish(w, 500, Error(err))
      [] next = "df_delete" -> Goto(w, "df_delete", loc[w])
      [] OTHER -> NextRow(w, req[w].path, [loc[w] EXCEPT !.logged = @ \/ err # Nil])

\* StatObject: nil only for an object that exists, asked of a store that
\* answers; the error is the store's "The specified key does not exist." for
\* an object that does not exist, and the failed call's otherwise
minioStat(w) ==
    /\ pc[w] = "dm_stat"
    /\ Running(w)
    /\ UNCHANGED <<db, store, now>>
    /\ \/ MinioReturn(w, "StatObject")
       \/ /\ loc[w].objectName \notin DOMAIN objects
          /\ MinioReturn(w, "NoSuchKey")
       \/ /\ loc[w].objectName \in DOMAIN objects
          /\ Goto(w, "dm_remove", loc[w])

\* RemoveObject
minioRemove(w) ==
    /\ pc[w] = "dm_remove"
    /\ Running(w)
    /\ UNCHANGED <<db, bucketExists, now>>
    /\ \/ /\ MinioReturn(w, "RemoveObject")
          /\ UNCHANGED objects
       \/ /\ objects' = Without(objects, {loc[w].objectName})
          /\ Goto(w, "dm_verify", loc[w])

\* the second StatObject: its nil is the error "object still exists", and any
\* error of it (the object is gone, or the store does not answer) is success
minioVerify(w) ==
    /\ pc[w] = "dm_verify"
    /\ Running(w)
    /\ UNCHANGED <<db, store, now>>
    /\ \/ /\ loc[w].objectName \in DOMAIN objects
          /\ MinioReturn(w, "object still exists after deletion attempt")
       \/ MinioReturn(w, Nil)

\* ------------------------------------------------------------- deleteNote
\* SELECT id, file_name, ext FROM note_files WHERE note_id = $1
SelectFileNames(tbl, n) ==
    {[id |-> f, file_name |-> tbl[f].file_name, ext |-> tbl[f].ext] : f \in FilesOf(tbl, n)}

\* (mutant) the statement runs on db, outside the transaction: it is committed at once
ExecAtOnce(tbl, deleted) == Without(tbl, deleted)

\* what the other connections see of rows a statement of the open transaction deleted
TxExec(tbl, deleted) == tbl

\* note_files.note_id REFERENCES notes(id) ON DELETE CASCADE: the rows that
\* the deletion of note n takes with it
Cascade(tbl, n, already) == FilesOf(tbl, n) \ already

\* (mutant) note_id is a plain INTEGER column, without REFERENCES notes(id)
ForeignKeyUnchecked(tbl, n) == TRUE

\* note_files.note_id REFERENCES notes(id): a row may point at note n
ForeignKeyOk(tbl, n) == n \in DOMAIN tbl

deleteNote(w) ==
    \E id \in PathIds, ok \in {"ok", "dberr"} :
      LET n == Atoi(id) IN
      /\ Accept(w, [NoReq EXCEPT !.op = "deleteNote", !.path = id, !.id = n])
      /\ UNCHANGED <<db, store, now>>
      /\ CASE ok = "dberr" -> Finish(w, 500, Error("select note_files"))
           [] OTHER -> NextRow(w, id, [NoLoc EXCEPT !.rows = SelectFileNames(note_files, n)])

\* db.Begin
deleteNoteBegin(w) ==
    /\ pc[w] = "dn_begin"
    /\ Running(w)
    /\ UNCHANGED <<db, store, now>>
    /\ \/ Finish(w, 500, Error("begin"))
       \/ Goto(w, "dn_tx", [loc[w] EXCEPT !.inTx = TRUE])

\* DELETE FROM note_files WHERE note_id = $1
deleteNoteFilesTx(w) ==
    /\ pc[w] = "dn_tx"
    /\ Running(w)
    /\ UNCHANGED <<notes, noteSeq, fileSeq, store, now>>
    /\ \/ /\ Goto(w, "dn_rollback", [loc[w] EXCEPT !.err = "delete note_files"])
          /\ UNCHANGED note_files
       \/ LET del == FilesOf(note_files, req[w].id) IN
          /\ del \cap LockedFiles(w) = {}
          /\ note_files' = TxExec(note_files, del)
          /\ Goto(w, "dn_delnote", [loc[w] EXCEPT !.txFiles = del])

\* DELETE FROM notes WHERE id = $1
deleteNoteRowTx(w) ==
    /\ pc[w] = "dn_delnote"
    /\ Running(w)
    /\ UNCHANGED <<noteSeq, fileSeq, store, now>>
    /\ \/ /\ Goto(w, "dn_rollback", [loc[w] EXCEPT !.err = "delete notes"])
          /\ UNCHANGED <<notes, note_files>>
       \/ LET hit == req[w].id \in DOMAIN notes
              casc == IF hit THEN Cascade(note_files, req[w].id, loc[w].txFiles) ELSE {} IN
          /\ ~NoteLocked(w, req[w].id)
          /\ casc \cap LockedFiles(w) = {}
          /\ notes' = TxExec(notes, IF hit THEN {req[w].id} ELSE {})
          /\ note_files' = TxExec(note_files, casc)
          /\ Goto(w, "dn_commit", [loc[w] EXCEPT !.txNote = hit, !.txFiles = @ \cup casc])

\* tx.Rollback after a failed DELETE: the row locks are released, and the
\* handler answers with the DELETE's error
deleteNoteRollback(w) ==
    /\ pc[w] = "dn_rollback"
    /\ Running(w)
    /\ UNCHANGED <<db, store, now>>
    /\ Finish(w, 500, Error(loc[w].err))

\* tx.Commit
deleteNoteCommit(w) ==
    /\ pc[w] = "dn_commit"
    /\ Running(w)
    /\ UNCHANGED <<noteSeq, fileSeq, store, now>>
    /\ \/ /\ Finish(w, 500, Error("commit"))
          /\ UNCHANGED <<notes, note_files>>
       \/ /\ note_files' = Without(note_files, loc[w].txFiles)
          /\ notes' = Without(notes, IF loc[w].txNote THEN {req[w].id} ELSE {})
          /\ Finish(w, 200, NoBody)

\* ------------------------------------------------------------- uploadFile
\* (mutant) the return after a failed uploadFileToMinio is missing
InsertAnyway(err) == "uf_insert"

\* what uploadFile does with uploadFileToMinio's result
AfterUpload(err) == IF err # Nil THEN "fail" ELSE "uf_insert"

PutObject(bucket, objectName, data) ==
    [o \in DOMAIN bucket \cup {objectName} |-> IF o = objectName THEN data ELSE bucket[o]]

\* INSERT INTO note_files (note_id, file_name, size, ext, file_url) VALUES (...) RETURNING id
InsertFile(tbl, id, noteID, filename, size, url) ==
    tbl @@ (id :> FileRow(noteID, filename, size, url))

\* the File that uploadFile encodes as its response
FileInfo(id, noteID, filename, size, url) ==
    [ kind |-> "file", ID |-> id, NoteID |-> noteID, FileName |-> filename,
      Extension |-> getFileInfo(filename).ext, Size |-> size, URL |-> url ]

\* the form is parsed and the file read
uploadFile(w) ==
    \E id \in PathIds, fn \in FileNames, d \in FileDatas, ok \in {"ok", "badform"} :
      /\ Accept(w, [NoReq EXCEPT !.op = "uploadFile", !.path = id, !.id = Atoi(id),
                      !.filename = fn, !.data = d])
      /\ UNCHANGED <<db, store, now>>
      /\ CASE ok = "badform" -> Finish(w, 400, Error("form"))
           [] Len(d) = 0 -> Finish(w, 500, Error("EOF"))
           [] OTHER -> Goto(w, "uf_bucket", NoLoc)

\* uploadFileToMinio returns err to uploadFile, or has the URL of the object
UploadNext(w, err, url) ==
    IF AfterUpload(err) = "fail"
    THEN Finish(w, 500, Error(err))
    ELSE Goto(w, "uf_insert", [loc[w] EXCEPT !.downloadURL = url])

\* BucketExists
uploadBucketExists(w) ==
    /\ pc[w] = "uf_bucket"
    /\ Running(w)
    /\ UNCHANGED <<db, store, now>>
    /\ \/ UploadNext(w, "BucketExists", <<>>)
       \/ Goto(w, IF bucketExists THEN "uf_put" ELSE "uf_make", loc[w])

\* MakeBucket: it fails on a bucket that exists by now
uploadMakeBucket(w) ==
    /\ pc[w] = "uf_make"
    /\ Running(w)
    /\ UNCHANGED <<db, objects, now>>
    /\ \/ /\ UploadNext(w, "MakeBucket", <<>>)
          /\ UNCHANGED bucketExists
       \/ /\ bucketExists
          /\ UploadNext(w, "BucketAlreadyOwnedByYou", <<>>)
          /\ UNCHANGED bucketExists
       \/ /\ ~bucketExists
          /\ bucketExists' = TRUE
          /\ Goto(w, "uf_put", loc[w])

\* PutObject and PresignedGetObject
uploadPut(w) ==
    LET objectName == UploadObjectName(req[w].path, req[w].filename) IN
    /\ pc[w] = "uf_put"
    /\ Running(w)
    /\ UNCHANGED <<db, bucketExists, now>>
    /\ \/ /\ UNCHANGED objects
          /\ UploadNext(w, "PutObject", <<>>)
       \/ /\ objects' = PutObject(objects, objectName, req[w].data)
          /\ UploadNext(w, "PresignedGetObject", <<>>)
       \/ /\ objects' = PutObject(objects, objectName, req[w].data)
          /\ UploadNext(w, Nil, PresignedURL(noteFilesBucket, objectName))

\* (mutant) the handler removes the object it stored when the INSERT fails
RemoveOrphan(bucket, objectName) == Without(bucket, {objectName})

\* what uploadFile does to the bucket when the INSERT failed: it returns
AfterInsertError(bucket, objectName) == bucket

\* the INSERT INTO note_files, and the response
uploadInsert(w) ==
    LET objectName == UploadObjectName(req[w].path, req[w].filename) IN
    /\ pc[w] = "uf_insert"
    /\ Running(w)
    /\ UNCHANGED <<notes, noteSeq, bucketExists, now>>
    /\ \/ /\ Finish(w, 500, Error("insert note_files"))
          /\ objects' = AfterInsertError(objects, objectName)
          /\ UNCHANGED <<note_files, fileSeq>>
       \/ /\ ~NoteLocked(w, req[w].id)
          /\ fileSeq' = fileSeq + 1
          /\ IF ForeignKeyOk(notes, req[w].id)
             THEN /\ note_files' = InsertFile(note_files, fileSeq, req[w].id, req[w].filename,
                                              Len(req[w].data), loc[w].downloadURL)
                  /\ UNCHANGED objects
                  /\ Finish(w, 200, FileInfo(fileSeq, req[w].id, req[w].filename,
                                             Len(req[w].data), loc[w].downloadURL))
             ELSE /\ UNCHANGED note_files
                  /\ objects' = AfterInsertError(objects, objectName)
                  /\ Finish(w, 500, Error("foreign key"))

\* ------------------------------------------------------------- deleteFile
\* (mutant) the SELECT is scoped by the attachment id alone
SelectFileById(tbl, fileID, noteID) == {f \in DOMAIN tbl : f = fileID}

\* (mutant) the SELECT is scoped by the note alone
SelectFileOfNote(tbl, fileID, noteID) == {f \in DOMAIN tbl : tbl[f].note_id = noteID}

\* SELECT file_name, ext FROM note_files WHERE id = $1 AND note_id = $2
SelectFile(tbl, fileID, noteID) ==
    {f \in DOMAIN tbl : f = fileID /\ tbl[f].note_id = noteID}

\* DELETE FROM note_files WHERE id = $1 AND note_id = $2
DeleteFileWhere(tbl, fileID, noteID) ==
    {f \in DOMAIN tbl : f = fileID /\ tbl[f].note_id = noteID}

deleteFile(w) ==
    \E id \in PathIds, f \in 1..fileSeq, ok \in {"ok", "badjson", "dberr"} :
      LET n == Atoi(id) IN
      /\ Accept(w, [NoReq EXCEPT !.op = "deleteFile", !.path = id, !.id = n, !.fileID = f])
      /\ UNCHANGED <<db, store, now>>
      /\ CASE ok = "badjson" -> Finish(w, 400, Error("decode"))
           [] ok = "dberr" -> Finish(w, 500, Error("select note_files"))
           [] SelectFile(note_files, f, n) = {} -> Finish(w, 404, Error("File not found"))
           [] OTHER ->
                LET r == note_files[CHOOSE x \in SelectFile(note_files, f, n) : TRUE] IN
                Goto(w, "dm_stat",
                     [NoLoc EXCEPT !.objectName = DeleteObjectName(id, r.file_name, r.ext)])

deleteFileRow(w) ==
    /\ pc[w] = "df_delete"
    /\ Running(w)
    /\ UNCHANGED <<notes, noteSeq, fileSeq, store, now>>
    /\ \/ /\ Finish(w, 500, Error("delete note_files"))
          /\ UNCHANGED note_files
       \/ LET del == DeleteFileWhere(note_files, req[w].fileID, req[w].id) IN
          /\ del \cap LockedFiles(w) = {}
          /\ note_files' = Without(note_files, del)
          /\ Finish(w, 200, NoBody)

\* ------------------------------------------------------------- specification
Next ==
    \E w \in Workers :
      \/ createNote(w)
      \/ createNoteInsert(w)
      \/ getNoteByID(w)
      \/ getNoteFiles(w)
      \/ updateNote(w)
      \/ updateNoteExec(w)
      \/ togglePinNote(w)
      \/ deleteNote(w)
      \/ minioStat(w)
      \/ minioRemove(w)
      \/ minioVerify(w)
      \/ deleteNoteBegin(w)
      \/ deleteNoteFilesTx(w)
      \/ deleteNoteRowTx(w)
      \/ deleteNoteRollback(w)
      \/ deleteNoteCommit(w)
      \/ uploadFile(w)
      \/ uploadBucketExists(w)
      \/ uploadMakeBucket(w)
      \/ uploadPut(w)
      \/ uploadInsert(w)
      \/ deleteFile(w)
      \/ deleteFileRow(w)

Spec == Init /\ [][Next]_vars

\* ------------------------------------------------------------- properties
\* request w takes the step
Step(w) == <<pc[w], loc[w]>> # <<pc'[w], loc'[w]>>

MinioPcs == {"dm_stat", "dm_remove", "dm_verify"}

Other(w) == CHOOSE v \in Workers : v # w

\* C1: deleteNote is all-or-nothing.  A step of a deleteNote request leaves
\* the rows of notes and note_files that the other connections see as they
\* were, except the successful commit, which removes the note's row and all
\* its attachment rows together; a step that answers 500 (the second DELETE
\* or the commit failed) therefore leaves the note and every attachment row.
C1_DeleteNoteAllOrNothing ==
    [][\A w \in Workers :
         (req'[w].op = "deleteNote" /\ Step(w)) =>
            \/ UNCHANGED <<notes, note_files>>
            \/ /\ pc[w] = "dn_commit"
               /\ resp'[w].status = 200
               /\ notes' = Without(notes, {req[w].id})
               /\ note_files' = Without(note_files, FilesOf(note_files, req[w].id))]_vars

\* a deleteNote whose second DELETE failed after the first one ran: the note
\* and its attachment rows are all there
C1_Witness ==
    \E w \in Workers :
      /\ req[w].op = "deleteNote"
      /\ resp[w] = [status |-> 500, body |-> Error("delete notes")]
      /\ req[w].id \in DOMAIN notes
      /\ Cardinality(FilesOf(note_files, req[w].id)) = Cardinality(FileNames)

\* C2: for every id, whatever rows the delete found and whatever createNote
\* or uploadFile requests run meanwhile, the step in which a deleteNote
\* request for the id answers 200 leaves no row of notes with the id and no
\* row of note_files referring to it.
C2_AnyIdLeavesNoRows ==
    [][\A w \in Workers :
         (req[w].op = "deleteNote" /\ pc[w] = "dn_commit" /\ resp'[w].status = 200) =>
            /\ req[w].id \notin DOMAIN notes'
            /\ FilesOf(note_files', req[w].id) = {}]_vars

\* C3: in deleteNote an error of deleteFileFromMinio never ends the request:
\* from every step of deleteFileFromMinio the handler goes on to the next
\* row or to the transaction; and when the commit succeeds the request
\* answers 200 with the note's rows gone, whatever is left in the bucket.
C3_MinioErrorDoesNotBlockDelete ==
    [][\A w \in Workers :
         (req[w].op = "deleteNote" /\ Step(w)) =>
            /\ pc[w] \in MinioPcs => pc'[w] \in MinioPcs \cup {"dn_begin"}
            /\ (pc[w] = "dm_stat" /\ loc[w].objectName \notin DOMAIN objects) =>
                  pc'[w] \in {"dm_stat", "dn_begin"}
            /\ (pc[w] = "dn_commit" /\ notes' # notes) =>
                  /\ resp'[w].status = 200
                  /\ req[w].id \notin DOMAIN notes'
                  /\ FilesOf(note_files', req[w].id) = {}]_vars

\* a deleteNote answered 200 for a seeded note although the objects of all its
\* attachments are still in the bucket, and no other request touched them
C3_Witness ==
    \E w \in Workers :
      /\ req[w].op = "deleteNote" /\ pc[w] = "done" /\ resp[w].status = 200
      /\ req[Other(w)].op = "none"
      /\ req[w].id < noteSeq
      /\ \A fn \in FileNames : UploadObjectName(Itoa(req[w].id), fn) \in DOMAIN objects

\* C4: in deleteFile the row is deleted only after deleteFileFromMinio
\* returned nil: the handler reaches the DELETE only from the verifying stat,
\* only the DELETE step changes note_files, and a step of
\* deleteFileFromMinio that ends the request answers 500 and leaves every
\* row as it was (a stat of a missing object always does).
C4_DeleteFileRowOnlyAfterObject ==
    [][\A w \in Workers :
         (req'[w].op = "deleteFile" /\ Step(w)) =>
            /\ UNCHANGED <<notes, noteSeq, fileSeq>>
            /\ note_files' # note_files => pc[w] = "df_delete"
            /\ pc'[w] = "df_delete" => pc[w] = "dm_verify"
            /\ (pc[w] \in MinioPcs /\ pc'[w] = "done") =>
                  resp'[w].status = 500 /\ UNCHANGED note_files
            /\ (pc[w] = "dm_stat" /\ loc[w].objectName \notin DOMAIN objects) =>
                  pc'[w] = "done"
            /\ (pc[w] = "dm_verify" /\ resp'[w].body = Error("object still exists after deletion attempt")) =>
                  pc'[w] = "done"]_vars

\* a deleteFile answered 500 because the object was not found, and its row is
\* still there
C4_Witness ==
    \E w \in Workers :
      /\ req[w].op = "deleteFile"
      /\ resp[w] = [status |-> 500, body |-> Error("NoSuchKey")]
      /\ SelectFile(note_files, req[w].fileID, req[w].id) # {}
      /\ req[Other(w)].op = "none"

\* the decode of the request body or the SELECT itself failed
DeleteFileRefused(r) == r.body \in {Error("decode"), Error("select note_files")}

\* C5: a deleteFile whose attachmentId matches no row of the note in the path
\* answers 404 in its first step (unless the body does not decode or the
\* SELECT itself fails) without a call to the object store: no row and no
\* object changes.
C5_UnknownAttachmentIs404 ==
    [][\A w \in Workers :
         (pc[w] = "idle" /\ req'[w].op = "deleteFile"
            /\ ~(\E f \in FilesOf(note_files, req'[w].id) : f = req'[w].fileID)) =>
            /\ pc'[w] = "done"
            /\ resp'[w].status = 404 \/ DeleteFileRefused(resp'[w])
            /\ UNCHANGED <<notes, note_files, noteSeq, fileSeq, bucketExists, objects>>]_vars

\* a deleteFile answered 404 for an id no attachment has, on a note that has
\* all its attachments and their objects
C5_Witness ==
    \E w \in Workers :
      /\ req[w].op = "deleteFile" /\ resp[w].status = 404
      /\ req[w].fileID \notin DOMAIN note_files
      /\ Cardinality(FilesOf(note_files, req[w].id)) = Cardinality(FileNames)
      /\ \A fn \in FileNames : UploadObjectName(Itoa(req[w].id), fn) \in DOMAIN objects

\* C6: deleteFile is scoped by the note: a request on note A naming an
\* attachment f of another note B answers 404 in its first step (unless the
\* body does not decode or the SELECT fails), and no step of a deleteFile
\* request removes a row of another note or an object keyed for another note.
C6_DeleteFileScopedByNote ==
    [][\A w \in Workers :
         (req'[w].op = "deleteFile" /\ Step(w)) =>
            /\ (pc[w] = "idle" /\ req'[w].fileID \in DOMAIN note_files
                  /\ note_files[req'[w].fileID].note_id # req'[w].id) =>
                  /\ pc'[w] = "done"
                  /\ resp'[w].status = 404 \/ DeleteFileRefused(resp'[w])
            /\ \A f \in DOMAIN note_files \ DOMAIN note_files' :
                  f = req[w].fileID /\ note_files[f].note_id = req[w].id
            /\ \A o \in DOMAIN objects \ DOMAIN objects' :
                  HasPrefix(o, req[w].path \o <<"-">>)]_vars

\* a deleteFile on an existing note A answered 404 for an attachment that
\* another note owns; the row and its object are there
C6_Witness ==
    \E w \in Workers :
      /\ req[w].op = "deleteFile" /\ resp[w].status = 404
      /\ req[w].id \in DOMAIN notes
      /\ req[w].fileID \in DOMAIN note_files
      /\ note_files[req[w].fileID].note_id # req[w].id
      /\ \E fn \in FileNames :
           /\ getFileInfo(fn).name = note_files[req[w].fileID].file_name
           /\ UploadObjectName(Itoa(note_files[req[w].fileID].note_id), fn) \in DOMAIN objects

\* where an uploadFile request stands before its INSERT
BeforeInsert == {"idle", "uf_bucket", "uf_make", "uf_put"}

\* C7: a failed uploadFileToMinio ends uploadFile with 500 before the INSERT.
\* No step before the INSERT changes a table; the handler reaches the INSERT
\* only in the step whose PutObject stored the object and whose URL was
\* signed; and every row that appears in note_files is inserted by a request
\* standing at that INSERT with that URL.
C7_NoRowWithoutUpload ==
    [][/\ \A w \in Workers :
            (req'[w].op = "uploadFile" /\ Step(w)) =>
               /\ pc[w] \in BeforeInsert => UNCHANGED <<notes, note_files, noteSeq, fileSeq>>
               /\ (pc[w] \in BeforeInsert /\ pc'[w] = "done") => resp'[w].status \in {400, 500}
               /\ pc'[w] = "uf_insert" =>
                     /\ pc[w] = "uf_put"
                     /\ loc'[w].downloadURL # <<>>
                     /\ UploadObjectName(req[w].path, req[w].filename) \in DOMAIN objects'
                     /\ objects'[UploadObjectName(req[w].path, req[w].filename)] = req[w].data
       /\ \A f \in DOMAIN note_files' \ DOMAIN note_files :
            \E w \in Workers :
               /\ req[w].op = "uploadFile" /\ pc[w] = "uf_insert"
               /\ loc[w].downloadURL # <<>>
               /\ note_files'[f].file_url = loc[w].downloadURL
               /\ note_files'[f].note_id = req[w].id]_vars

\* an uploadFile to an existing note answered 500 because PutObject failed,
\* and neither a row nor an object of it exists
C7_Witness ==
    \E w \in Workers :
      /\ req[w].op = "uploadFile"
      /\ resp[w] = [status |-> 500, body |-> Error("PutObject")]
      /\ req[w].id \in DOMAIN notes
      /\ FilesOf(note_files, req[w].id) = {}
      /\ objects = <<>>

\* C8: for a file name base.ext, the File that uploadFile answers has the
\* base name as FileName, the extension without its dot, the byte length as
\* Size and a URL, and these are the values of the row that getNoteByID reads.
C8_UploadResponseMatchesRow ==
    \A w \in Workers :
      (req[w].op = "uploadFile" /\ pc[w] = "done" /\ resp[w].status = 200
         /\ Ext(req[w].filename) # <<>>) =>
         LET b == resp[w].body IN
         /\ b.FileName = getFileInfo(req[w].filename).name
         /\ b.Extension = getFileInfo(req[w].filename).ext
         /\ b.Size = Len(req[w].data)
         /\ b.URL # <<>>
         /\ \A g \in SelectFiles(note_files, req[w].id) : g.ID = b.ID => g = [x \in DOMAIN g |-> b[x]]

\* C9: a createNote that answered id n and a getNoteByID of n that answered
\* 200, with no other request: the note read has the title, the content and
\* the flag of the payload, a last_modified, and no attachment.
C9_CreateThenGet ==
    \A c, g \in Workers :
      (/\ req[c].op = "createNote" /\ pc[c] = "done" /\ resp[c].status = 200
       /\ req[g].op = "getNoteByID" /\ pc[g] = "done" /\ resp[g].status = 200
       /\ req[g].id = resp[c].body.id) =>
         /\ resp[g].body.ID = resp[c].body.id
         /\ resp[g].body.Title = req[c].title
         /\ resp[g].body.Content = req[c].content
         /\ resp[g].body.IsPinned = req[c].isPinned
         /\ resp[g].body.UserID = req[c].userId
         /\ resp[g].body.LastModified >= 1
         /\ resp[g].body.LastModified = notes[req[g].id].last_modified
         /\ resp[g].body.Files = {}

\* a pinned note was created and then read
C9_Witness ==
    \E c, g \in Workers :
      /\ req[c].op = "createNote" /\ pc[c] = "done" /\ resp[c].status = 200
      /\ req[c].isPinned
      /\ req[g].op = "getNoteByID" /\ pc[g] = "done" /\ resp[g].status = 200
      /\ req[g].id = resp[c].body.id

\* C10: togglePinNote with {isPinned: v} on an existing note sets the row's
\* is_pin to v and changes no other column, no other note, no attachment
\* and no object.
C10_TogglePinSetsOnlyFlag ==
    [][\A w \in Workers :
         (pc[w] = "idle" /\ req'[w].op = "togglePinNote" /\ resp'[w].status = 200
            /\ req'[w].id \in DOMAIN notes) =>
            /\ notes' = [notes EXCEPT ![req'[w].id].is_pin = req'[w].isPinned]
            /\ UNCHANGED <<note_files, noteSeq, fileSeq, bucketExists, objects>>]_vars

\* a note was pinned and then unpinned: two requests answered 200, the first
\* with true, and the flag is false again while the row was touched
C10_Witness ==
    \E w \in Workers :
      /\ req[w].op = "togglePinNote" /\ resp[w].status = 200 /\ req[w].isPinned
      /\ req[Other(w)].op = "togglePinNote" /\ resp[Other(w)].status = 200
      /\ ~req[Other(w)].isPinned
      /\ req[w].id = req[Other(w)].id
      /\ req[w].id \in DOMAIN notes
      /\ notes[req[w].id].is_pin = FALSE

\* the (title, content, isPinned) of a note row, and of a request's payload
RowFields(row) == <<row.title, row.content, row.is_pin>>

PayloadFields(r) == <<r.title, r.content, r.isPinned>>

\* C11: two updateNote requests with different payloads on the same existing
\* note, both answered 200: the row's (title, content, is_pin) is the whole
\* payload of exactly one of them; and while only updateNote requests have
\* arrived, every row is the row it was at start or one request's whole payload.
C11_UpdateLastWriteWins ==
    /\ \A w \in Workers :
         LET v == Other(w) IN
         (/\ req[w].op = "updateNote" /\ resp[w].status = 200
          /\ req[v].op = "updateNote" /\ resp[v].status = 200
          /\ req[w].id = req[v].id /\ req[w].id \in DOMAIN notes
          /\ PayloadFields(req[w]) # PayloadFields(req[v])) =>
            (RowFields(notes[req[w].id]) = PayloadFields(req[w]))
               # (RowFields(notes[req[w].id]) = PayloadFields(req[v]))
    /\ (\A w \in Workers : req[w].op \in {"none", "updateNote"}) =>
         \A n \in DOMAIN notes :
            \/ RowFields(notes[n]) = <<SeedPayload.title, SeedPayload.content, SeedPayload.isPinned>>
            \/ \E w \in Workers :
                 req[w].op = "updateNote" /\ req[w].id = n /\ resp[w].status = 200
                   /\ RowFields(notes[n]) = PayloadFields(req[w])

\* two updateNote requests with different payloads on one existing note were
\* both answered 200, and the row has the title of the unpinned payload
C11_Witness ==
    \E w \in Workers :
      /\ req[w].op = "updateNote" /\ resp[w].status = 200
      /\ req[Other(w)].op = "updateNote" /\ resp[Other(w)].status = 200
      /\ req[w].id = req[Other(w)].id /\ req[w].id \in DOMAIN notes
      /\ req[w].isPinned /\ ~req[Other(w)].isPinned
      /\ notes[req[w].id].title = req[Other(w)].title
      /\ notes[req[w].id].last_modified > 1

\* what getNoteByID answers, seen from its steps: 404 only in the step that
\* ran the SELECT on notes and only when no row has the id; with no such row
\* it answers 404 there, unless the SELECT itself failed (500)
GetAnswers404IffNoRow ==
    \A v \in Workers :
      /\ (pc[v] = "idle" /\ req'[v].op = "getNoteByID") =>
            /\ resp'[v].status = 404 => req'[v].id \notin DOMAIN notes
            /\ req'[v].id \notin DOMAIN notes =>
                  /\ pc'[v] = "done"
                  /\ resp'[v].status = 404 \/ resp'[v].body = Error("select notes")
      /\ (pc[v] = "gn_files" /\ Step(v)) => resp'[v].status \in {200, 500}

\* C12: getNoteByID answers 404 exactly when no row has the id, and once a
\* deleteNote of an id has answered 200 no row has that id in any later
\* state, so that every later getNoteByID of it answers 404.
C12_AnyDeletedIdIsGone ==
    [][/\ GetAnswers404IffNoRow
       /\ \A w \in Workers :
            (req[w].op = "deleteNote" /\ pc[w] = "done" /\ resp[w].status = 200) =>
               req[w].id \notin DOMAIN notes']_vars

\* every row of note_files points at a row of notes
EveryFileHasItsNote(files, tbl) == \A f \in DOMAIN files : files[f].note_id \in DOMAIN tbl

\* C13: in every reachable state every attachment row's note_id is the id of
\* an existing note row; and the INSERT of an uploadFile whose note has no
\* row (it never existed, or it was deleted before the INSERT) answers 500
\* and inserts nothing.
C13_AttachmentsReferToNotes ==
    /\ EveryFileHasItsNote(note_files, notes)
    /\ [][/\ EveryFileHasItsNote(note_files', notes')
          /\ \A w \in Workers :
               (req[w].op = "uploadFile" /\ pc[w] = "uf_insert" /\ Step(w)
                  /\ req[w].id \notin DOMAIN notes) =>
                  /\ resp'[w].status = 500
                  /\ UNCHANGED <<notes, note_files>>]_vars

\* an uploadFile stored its object while the note was there, the note was
\* then deleted (200), and the INSERT was refused by the foreign key: the
\* deleted note has no attachment row
C13_Witness ==
    \E w \in Workers :
      /\ req[w].op = "uploadFile"
      /\ resp[w] = [status |-> 500, body |-> Error("foreign key")]
      /\ req[w].id < noteSeq
      /\ req[Other(w)].op = "deleteNote" /\ req[Other(w)].id = req[w].id
      /\ resp[Other(w)].status = 200
      /\ FilesOf(note_files, req[w].id) = {}
      /\ UploadObjectName(req[w].path, req[w].filename) \in DOMAIN objects

\* C14: for every uploadFile that answered 200 and whose row is there, the
\* key that a deleteFile or deleteNote request for the row's note computes
\* from the row, "<noteID>-<file_name>.<ext>", is the key under which the
\* upload stored the object, "<noteID>-<originalFileName>".
C14_DeleteKeyIsUploadKey ==
    \A w \in Workers :
      (/\ req[w].op = "uploadFile" /\ pc[w] = "done" /\ resp[w].status = 200
       /\ resp[w].body.ID \in DOMAIN note_files) =>
         LET row == note_files[resp[w].body.ID] IN
         \A id \in PathIds :
            Atoi(id) = row.note_id =>
               DeleteObjectName(id, row.file_name, row.ext)
                  = UploadObjectName(req[w].path, req[w].filename)

\* the keys under which an upload that wrote this row stored its object
UploadKeysOf(row) ==
    { UploadObjectName(u[1], u[2]) : u \in
        { v \in PathIds \X FileNames :
            /\ Atoi(v[1]) = row.note_id
            /\ getFileInfo(v[2]).name = row.file_name
            /\ getFileInfo(v[2]).ext = row.ext } }

\* every attachment row has its object and every object has its attachment row
RowsAndObjectsTogether(files, bucket) ==
    /\ \A f \in DOMAIN files : UploadKeysOf(files[f]) \cap DOMAIN bucket # {}
    /\ \A o \in DOMAIN bucket : \E f \in DOMAIN files : o \in UploadKeysOf(files[f])

\* C15: after an uploadFile, deleteFile or deleteNote request that ran alone
\* on what earlier successful uploads left, and answered 200, every
\* attachment row has a stored object under the key its upload used and
\* every stored object has an attachment row.
C15_RowAndObjectTogether ==
    \A w \in Workers :
      (/\ req[w].op \in {"uploadFile", "deleteFile", "deleteNote"}
       /\ pc[w] = "done" /\ resp[w].status = 200
       /\ pc[Other(w)] = "idle") =>
         RowsAndObjectsTogether(note_files, objects)

\* in this step deleteFileFromMinio returns an error to its caller: deleteFile
\* answers 500 with it, deleteNote logs it and goes on
MinioReturnsError(w) ==
    IF req[w].op = "deleteFile"
    THEN pc'[w] = "done" /\ resp'[w].status = 500
    ELSE pc'[w] \in {"dm_stat", "dn_begin"} /\ loc'[w].logged

\* in this step deleteFileFromMinio returns nil to its caller
MinioReturnsNil(w) ==
    IF req[w].op = "deleteFile"
    THEN pc'[w] = "df_delete"
    ELSE pc'[w] \in {"dm_stat", "dn_begin"} /\ ~loc'[w].logged

\* C16: deleteFileFromMinio returns an error, without a removal, when the
\* object does not exist beforehand; returns an error when the removal fails;
\* returns "object still exists after deletion attempt" when the object is
\* still there after the removal; and returns nil only after the removal,
\* with the object absent.
C16_SuccessOnlyIfObjectGone ==
    [][\A w \in Workers :
         (pc[w] \in MinioPcs /\ Step(w)) =>
            LET o == loc[w].objectName IN
            /\ (pc[w] = "dm_stat" /\ o \notin DOMAIN objects) =>
                  MinioReturnsError(w) /\ UNCHANGED objects
            /\ (pc[w] = "dm_remove" /\ o \in DOMAIN objects') => MinioReturnsError(w)
            /\ (pc[w] = "dm_verify" /\ o \in DOMAIN objects) =>
                  /\ MinioReturnsError(w)
                  /\ req[w].op = "deleteFile" =>
                        resp'[w].body = Error("object still exists after deletion attempt")
            /\ MinioReturnsNil(w) => pc[w] = "dm_verify" /\ o \notin DOMAIN objects']_vars

\* C17: an updateNote that answers 200 for an id no row has changes no table
\* and no object and creates no row; for an id that has a row it sets title,
\* content and is_pin to the payload and last_modified to the time.Now() the
\* request read, and leaves the row's user_id, every other note,
\* every attachment and every object as they were.
C17_UpdateNoteFrame ==
    [][\A w \in Workers :
         (pc[w] = "un_update" /\ resp'[w].status = 200) =>
            LET n == req[w].id IN
            /\ UNCHANGED <<note_files, noteSeq, fileSeq, bucketExists, objects>>
            /\ DOMAIN notes' = DOMAIN notes
            /\ \A m \in DOMAIN notes \ {n} : notes'[m] = notes[m]
            /\ n \in DOMAIN notes =>
                  /\ notes'[n].title = req[w].title
                  /\ notes'[n].content = req[w].content
                  /\ notes'[n].is_pin = req[w].isPinned
                  /\ notes'[n].last_modified = loc[w].t
                  /\ notes'[n].user_id = notes[n].user_id]_vars

\* an updateNote of an id that never had a row answered 200 and there is
\* still no such row, while the other updateNote, of a note with all its
\* attachments, wrote its payload at a later time and left the attachments
C17_Witness ==
    \E w \in Workers :
      /\ req[w].op = "updateNote" /\ resp[w].status = 200
      /\ req[w].id >= noteSeq /\ req[w].id \notin DOMAIN notes
      /\ req[Other(w)].op = "updateNote" /\ resp[Other(w)].status = 200
      /\ req[Other(w)].id \in DOMAIN notes
      /\ notes[req[Other(w)].id].title = req[Other(w)].title
      /\ notes[req[Other(w)].id].last_modified > 1
      /\ notes[req[Other(w)].id].user_id = SeedPayload.userId
      /\ Cardinality(FilesOf(note_files, req[Other(w)].id)) = Cardinality(FileNames)

\* C18: the INSERT of uploadFile runs after the object was stored; when it
\* fails (always, when the note has no row) the request answers 500 in that
\* step and is over: no row is inserted, no table changes, the bucket is left
\* as it is with the stored object in it, and a request that has answered
\* takes no further step (neither the put nor the INSERT is tried again).
C18_FailedInsertLeavesObject ==
    [][\A w \in Workers :
         /\ (req[w].op = "uploadFile" /\ pc[w] = "uf_insert" /\ Step(w)) =>
               /\ pc'[w] = "done"
               /\ req[w].id \notin DOMAIN notes => resp'[w].status = 500
               /\ resp'[w].status # 200 =>
                     /\ resp'[w].status = 500
                     /\ UNCHANGED <<notes, note_files, noteSeq, bucketExists, objects>>
                     /\ req[Other(w)].op \notin {"deleteFile", "deleteNote"} =>
                           UploadObjectName(req[w].path, req[w].filename) \in DOMAIN objects'
         /\ pc[w] = "done" => (pc'[w] = "done" /\ resp'[w] = resp[w])]_vars

\* an uploadFile to a note that never existed stored its object and was
\* answered 500 by the INSERT: the object is in the bucket, with the bytes
\* sent, and note_files has no row
C18_Witness ==
    \E w \in Workers :
      /\ req[w].op = "uploadFile"
      /\ resp[w] = [status |-> 500, body |-> Error("foreign key")]
      /\ req[w].id >= noteSeq
      /\ req[Other(w)].op = "none"
      /\ note_files = <<>>
      /\ UploadObjectName(req[w].path, req[w].filename) \in DOMAIN objects
      /\ objects[UploadObjectName(req[w].path, req[w].filename)] = req[w].data
      /\ Len(req[w].data) = MaxData

\* an object of the bucket keyed for note n: "<id>-..." for a spelling id of n
KeyedFor(o, n) == \E id \in PathIds : Atoi(id) = n /\ HasPrefix(o, id \o <<"-">>)

\* C19: when a deleteNote request for an existing note n returns 200 and
\* every deleteFileFromMinio it called returned nil (it logged no error), no
\* object keyed for n is in the bucket, whatever uploadFile requests for n
\* did meanwhile.
C19_NoObjectAfterDeleteNote ==
    [][\A w \in Workers :
         (/\ req[w].op = "deleteNote" /\ pc[w] = "dn_commit" /\ ~loc[w].logged
          /\ loc[w].txNote
          /\ resp'[w].status = 200
          /\ req[Other(w)].op \in {"none", "uploadFile"}) =>
            \A o \in DOMAIN objects' : ~KeyedFor(o, req[w].id)]_vars

\* the response is not the error of a call that failed by itself (a body
\* that does not decode, a statement or a call to the store that fails)
NoOutage(r) ==
    r.body \notin {Error("decode"), Error("select note_files"), Error("StatObject"),
                   Error("RemoveObject"), Error("delete note_files")}

\* C20: two deleteFile requests for the same attachment, which was there at
\* start, both answered without an outage: at least one answered 200, both
\* answered 200, 404 or 500, the attachment's row and its object are gone,
\* and every other attachment has its row and its object.
C20_ConcurrentDeleteFile ==
    \A w \in Workers :
      LET v == Other(w)
          f == req[w].fileID IN
      (/\ req[w].op = "deleteFile" /\ req[v].op = "deleteFile"
       /\ req[v].id = req[w].id /\ req[v].fileID = f
       /\ pc[w] = "done" /\ pc[v] = "done"
       /\ NoOutage(resp[w]) /\ NoOutage(resp[v])
       /\ f < fileSeq
       /\ f \in DOMAIN note_files => note_files[f].note_id = req[w].id) =>
         /\ 200 \in {resp[w].status, resp[v].status}
         /\ {resp[w].status, resp[v].status} \subseteq {200, 404, 500}
         /\ DOMAIN note_files = (1..(fileSeq - 1)) \ {f}
         /\ RowsAndObjectsTogether(note_files, objects)

====
